---- MODULE Spec2Model ----
(***************************************************************************)
(* Model of the hyperv_vhd / hyperv_dvd resource handlers, the DVD data    *)
(* source, and the DVD client operations with their PowerShell scripts.    *)
(*                                                                         *)
(* A directory is a sequence of names (<<"vms", "a">>), a file is a record *)
(* [dir, base, ext] whose base name is a sequence of characters, so that   *)
(* Split-Path and String.StartsWith are computed and not assumed.          *)
(***************************************************************************)
EXTENDS Integers, Sequences, FiniteSets, TLC

VARIABLES
    decl,       \* the declared resource of this run: kind, DVD path, DVD ip
    cfg,        \* the hyperv_vhd configuration as last edited
    valid,      \* whether cfg passed the schema's ConflictsWith validation
    tfstate,    \* the resource data the framework persisted
    fs,         \* the remote host's file system: [dirs, files]
    h,          \* the handler that is running (or ran last)
    pc,         \* the handler's position
    d,          \* *schema.ResourceData of the running handler
    inflight,   \* the remote client calls issued and not yet returned
    ret,        \* what the last client call returned
    calls,      \* the client calls of this invocation, start and end events
    sets,       \* the d.Set calls of this invocation
    diags,      \* the diag.Diagnostics the handler returned
    scripts     \* CreateDvd scripts running concurrently on the host

vars == <<decl, cfg, valid, tfstate, fs, h, pc, d, inflight, ret, calls, sets,
          diags, scripts>>

----------------------------------------------------------------------------
(* Bounds *)

\* sizes a configuration may ask for: 0 and BlockUnit * 1..MaxSizeBlocks
MaxSizeBlocks == 2
\* number of distinct ip values
MaxIps == 2

\* IsDivisibleBy(4096)
BlockUnit == 4096

Sizes == {0} \cup {BlockUnit * k : k \in 1..MaxSizeBlocks}
Ips == 1..MaxIps
\* Go's "" for an ip
NoIp == 0

----------------------------------------------------------------------------
(* Paths on the remote host *)

\* Go's "" for a path
NoPath == [dir |-> <<>>, base |-> <<>>, ext |-> ""]

Root == <<"vms">>
Folders == {"a", "b", "tmp"}

DvdPaths ==
    {[dir |-> Append(Root, f), base |-> b, ext |-> "iso"] :
        f \in Folders, b \in {<<"x">>, <<"x", "y">>}}

VhdPaths == {[dir |-> <<"vms", "a">>, base |-> <<"x", "y">>, ext |-> "vhdx"]}

\* Split-Path -Parent on a directory
SplitPathParent(p) == SubSeq(p, 1, Len(p) - 1)

IsPrefix(a, b) == Len(a) <= Len(b) /\ SubSeq(b, 1, Len(a)) = a

\* New-Item -ItemType Directory creates the missing intermediate directories
MkDirs(dirs, p) == dirs \cup {SubSeq(p, 1, n) : n \in 1..Len(p)}

Put(f, p, c) == [q \in (DOMAIN f) \cup {p} |-> IF q = p THEN c ELSE f[q]]
Drop(f, S) == [q \in (DOMAIN f) \ S |-> f[q]]
NoFiles == [q \in {} |-> NoIp]

----------------------------------------------------------------------------
(* createDvdTemplate, one step per statement of the script *)

FolderPath(path) == path.dir

\* $tmpPath = Split-Path -Path $folderPath -Parent; $tmpPath += "\tmp"
TmpPath(path) == Append(SplitPathParent(FolderPath(path)), "tmp")

YamlFile(path) == [dir |-> TmpPath(path), base |-> <<"n">>, ext |-> "yaml"]

\* what oscdimg -n -d -m $tmpPath $path puts into the image: the files of the
\* source directory
IsoOf(f, path) ==
    [type |-> "iso",
     net |-> IF YamlFile(path) \in DOMAIN f THEN f[YamlFile(path)].ip ELSE NoIp,
     names |-> {[base |-> q.base, ext |-> q.ext] :
                   q \in {r \in DOMAIN f : r.dir = TmpPath(path) /\ r # path}}]

StartScript(path, ip) == [path |-> path, ip |-> ip, pc |-> "s37", native |-> TRUE]

ScriptPcs == {"s37", "s38", "s44", "s45", "s48", "s49", "s50"}

\* r = [st, fs]: the script's state and the file system; the result of its
\* next statement
DvdStep(r) ==
    LET st == r.st
        f == r.fs
        folder == FolderPath(st.path)
        tmp == TmpPath(st.path)
        to(l) == [r EXCEPT !.st.pc = l]
        fail == [r EXCEPT !.st.pc = "err"]
    IN  CASE st.pc = "s37" ->
                IF folder \in f.dirs THEN to("s44") ELSE to("s38")
          [] st.pc = "s38" ->
                IF folder \in f.dirs THEN fail
                ELSE [to("s44") EXCEPT !.fs.dirs = MkDirs(f.dirs, folder)]
          [] st.pc = "s44" ->
                IF tmp \in f.dirs THEN to("s48") ELSE to("s45")
          [] st.pc = "s45" ->
                IF tmp \in f.dirs THEN fail
                ELSE [to("s48") EXCEPT !.fs.dirs = MkDirs(f.dirs, tmp)]
          [] st.pc = "s48" ->
                IF tmp \notin f.dirs THEN fail
                ELSE [to("s49") EXCEPT
                        !.fs.files = Put(f.files, YamlFile(st.path),
                                         [type |-> "yaml", ip |-> st.ip])]
          [] st.pc = "s49" ->
                \* a failing native command does not stop the script
                IF tmp \notin f.dirs \/ folder \notin f.dirs
                THEN [to("s50") EXCEPT !.st.native = FALSE]
                ELSE [to("s50") EXCEPT
                        !.fs.files = Put(f.files, st.path, IsoOf(f.files, st.path))]
          [] st.pc = "s50" ->
                IF tmp \notin f.dirs THEN fail
                ELSE [to("ok") EXCEPT
                        !.fs.dirs = {p \in f.dirs : ~IsPrefix(tmp, p)},
                        !.fs.files = Drop(f.files,
                            {q \in DOMAIN f.files : IsPrefix(tmp, q.dir)})]
          [] OTHER -> r

RECURSIVE RunUntil(_, _)
\* the script run from r until it ends or is about to execute statement stop
RunUntil(r, stop) ==
    IF r.st.pc \in {"ok", "err", stop} THEN r ELSE RunUntil(DvdStep(r), stop)

RunCreateDvd(f, path, ip) == RunUntil([st |-> StartScript(path, ip), fs |-> f], "end")

----------------------------------------------------------------------------
(* Schemas *)

VhdSchema ==
    {"path", "source", "source_vm", "source_disk", "vhd_type", "parent_path",
     "size", "block_size", "logical_sector_size", "physical_sector_size", "exists"}

DvdSchema == {"path", "ip", "exists"}

DsDvdSchema == {"path", "source"}

SchemaOf(kind) ==
    CASE kind = "vhd" -> VhdSchema
      [] kind = "dvd" -> DvdSchema
      [] OTHER -> DsDvdSchema

\* the schema with size's ConflictsWith list left out
ConflictsWithSizeFree(k) ==
    CASE k = "source" -> {"source_vm", "parent_path", "source_disk"}
      [] k = "source_vm" -> {"source", "parent_path", "source_disk"}
      [] k = "source_disk" -> {"source", "source_vm", "parent_path"}
      [] k = "vhd_type" -> {"source", "source_vm"}
      [] k = "parent_path" -> {"source", "source_vm", "source_disk", "size"}
      [] k \in {"block_size", "logical_sector_size", "physical_sector_size"} ->
            {"source", "source_vm", "parent_path"}
      [] OTHER -> {}

\* the ConflictsWith lists of the hyperv_vhd schema
ConflictsWith(k) ==
    CASE k = "source" -> {"source_vm", "parent_path", "source_disk"}
      [] k = "source_vm" -> {"source", "parent_path", "source_disk"}
      [] k = "source_disk" -> {"source", "source_vm", "parent_path"}
      [] k = "vhd_type" -> {"source", "source_vm"}
      [] k = "parent_path" -> {"source", "source_vm", "source_disk", "size"}
      [] k = "size" -> {"parent_path"}
      [] k \in {"block_size", "logical_sector_size", "physical_sector_size"} ->
            {"source", "source_vm", "parent_path"}
      [] OTHER -> {}

\* the fields a hyperv_vhd configuration may set besides path
OptionalKeys == {"source", "source_vm", "source_disk", "parent_path", "size"}

Configs == [set : SUBSET OptionalKeys, size : Sizes]

\* a configuration as written: size carries a value only when it is set
WellFormed(c) == ("size" \notin c.set) => c.size = 0

\* schema validation: a set field is rejected when a field of its ConflictsWith
\* list is set too
Validate(c) == \A k \in c.set : \A j \in ConflictsWith(k) : j \notin c.set

----------------------------------------------------------------------------
(* Errors and diagnostics *)

Nil == [kind |-> "nil", msg |-> <<>>]

ErrKinds == {"Timeout", "TransportFailure", "RemoteScriptFailure", "DecodeFailure"}

Err(kind) == [kind |-> kind, msg |-> <<kind>>]

\* fmt.Errorf(format, ..., err) with %+v: a new error whose text embeds err's
FmtErrorf(prefix, err) == [kind |-> "errorString", msg |-> <<prefix>> \o err.msg]

\* a timeout taken for success
FailedUnlessTimeout(err) == err.kind \notin {"nil", "Timeout"}

\* if err != nil
Failed(err) == err # Nil

\* diag.FromErr
FromErr(err) ==
    IF err = Nil THEN <<>> ELSE <<[severity |-> "Error", summary |-> err.msg]>>

\* diag.Errorf
DiagErrorf(text) == <<[severity |-> "Error", summary |-> <<text>>]>>

HasError(ds) == \E i \in 1..Len(ds) : ds[i].severity = "Error"

----------------------------------------------------------------------------
(* Resource data *)

ZeroAttrs(kind) ==
    [k \in SchemaOf(kind) |->
        CASE k = "path" -> NoPath
          [] k = "exists" -> FALSE
          [] k = "ip" -> NoIp
          [] k \in {"source", "source_vm", "parent_path"} -> ""
          [] k = "vhd_type" -> "Dynamic"
          [] OTHER -> 0]

\* tainted: a create that returned an error after it had set the ID; the
\* resource is then replaced, never updated
EmptyState(kind) == [id |-> NoPath, attrs |-> ZeroAttrs(kind), tainted |-> FALSE]

\* d.Set(key, val): an error for a key the schema does not declare
RECURSIVE ApplySets(_, _, _)
\* the d.Set calls kvs made in order on the attributes a until one fails:
\* [attrs, log, err]
ApplySets(a, log, kvs) ==
    IF kvs = <<>> THEN [attrs |-> a, log |-> log, err |-> Nil]
    ELSE LET kv == Head(kvs)
         IN  IF kv.key \in DOMAIN a
             THEN ApplySets([a EXCEPT ![kv.key] = kv.val],
                            Append(log, [key |-> kv.key, val |-> kv.val, ok |-> TRUE]),
                            Tail(kvs))
             ELSE [attrs |-> a,
                   log |-> Append(log, [key |-> kv.key, val |-> kv.val, ok |-> FALSE]),
                   err |-> [kind |-> "errorString",
                            msg |-> <<"Invalid address to set", kv.key>>]]

KV(k, v) == [key |-> k, val |-> v]

\* the attribute values d.Get sees for hyperv_vhd: the configuration over the
\* prior state; local is the result of os.Stat(path) on the provider's machine
PlannedVhdAttrs(c, path, prior, local) ==
    [k \in VhdSchema |->
        CASE k = "path" -> path
          [] k = "source" -> IF k \in c.set THEN "S" ELSE ""
          [] k = "source_vm" -> IF k \in c.set THEN "VM" ELSE ""
          [] k = "source_disk" -> IF k \in c.set THEN 1 ELSE 0
          [] k = "parent_path" -> IF k \in c.set THEN "P" ELSE ""
          [] k = "size" -> IF k \in c.set /\ c.size # 0 THEN c.size ELSE prior[k]
          [] k = "exists" -> IF local THEN prior[k] ELSE FALSE
          [] OTHER -> prior[k]]

\* d.HasChange(key) on the resource data dd
HasChange(dd, k) == tfstate.attrs[k] # dd.attrs[k]

----------------------------------------------------------------------------
(* The remote client.  A call is issued by a handler, is in flight, and      *)
(* returns; the handler goes on when it has returned.                        *)

Call(op, path, ip, size, parent) ==
    [op |-> op, path |-> path, ip |-> ip, size |-> size, parent |-> parent]

\* the zero value of every result structure
ZeroVal ==
    [Exists |-> FALSE, Path |-> NoPath, VhdType |-> "Unknown", ParentPath |-> "",
     Size |-> 0, Ip |-> NoIp]

NoRet == [op |-> "none", err |-> Nil, rerr |-> Nil, runs |-> 0, val |-> ZeroVal]

\* the handler calls the client and blocks
Issue(c) ==
    /\ inflight' = inflight \cup {c}
    /\ calls' = Append(calls, [op |-> c.op, ev |-> "start"])

\* the client call c returns err and val, having run the runner runs times, the
\* last of which returned rerr
Return(c, err, rerr, runs, val) ==
    /\ inflight' = inflight \ {c}
    /\ ret' = [op |-> c.op, err |-> err, rerr |-> rerr, runs |-> runs, val |-> val]
    /\ calls' = Append(calls, [op |-> c.op, ev |-> IF err = Nil THEN "ok" ELSE err.kind])

ClientFrame == UNCHANGED <<decl, cfg, valid, tfstate, h, pc, d, sets, diags, scripts>>

Exists(path) == path \in DOMAIN fs.files

\* what a script that looks a disk up emits, decoded: the zero value for {}
VhdOf(path) ==
    IF Exists(path) /\ fs.files[path].type = "vhd"
    THEN [Path |-> path,
          VhdType |-> IF fs.files[path].parent # "" THEN "Differencing" ELSE "Dynamic",
          ParentPath |-> fs.files[path].parent,
          Size |-> fs.files[path].size]
    ELSE [Path |-> NoPath, VhdType |-> "Unknown", ParentPath |-> "", Size |-> 0]

\* the file system with a disk at c.path, created when none is there
WithVhd(c) ==
    IF Exists(c.path) THEN fs
    ELSE [dirs |-> MkDirs(fs.dirs, c.path.dir),
          files |-> Put(fs.files, c.path,
                        [type |-> "vhd", size |-> IF c.parent = "" THEN c.size ELSE 0,
                         parent |-> c.parent])]

Resized(c) == [fs EXCEPT !.files[c.path].size = c.size]

Without(path) == [fs EXCEPT !.files = Drop(fs.files, {path})]

\* the kinds of error a fire-and-forget call can return (nothing is decoded)
RunErrKinds == ErrKinds \ {"DecodeFailure"}

VhdExists ==
    \E c \in inflight :
        /\ c.op = "VhdExists"
        /\ \/ Return(c, Nil, Nil, 1, [Exists |-> Exists(c.path)])
           \/ \E k \in ErrKinds : Return(c, Err(k), Err(k), 1, [Exists |-> FALSE])
        /\ UNCHANGED fs
        /\ ClientFrame

GetVhd ==
    \E c \in inflight :
        /\ c.op = "GetVhd"
        /\ \/ Return(c, Nil, Nil, 1, VhdOf(c.path))
           \/ \E k \in ErrKinds : Return(c, Err(k), Err(k), 1, VhdOf(NoPath))
        /\ UNCHANGED fs
        /\ ClientFrame

CreateOrUpdateVhd ==
    \E c \in inflight :
        /\ c.op = "CreateOrUpdateVhd"
        /\ \/ Return(c, Nil, Nil, 1, ZeroVal) /\ fs' = WithVhd(c)
           \/ \E k \in RunErrKinds :
                /\ Return(c, Err(k), Err(k), 1, ZeroVal)
                \* after a timeout the remote state is unknown
                /\ fs' \in IF k = "Timeout" THEN {fs, WithVhd(c)} ELSE {fs}
        /\ ClientFrame

ResizeVhd ==
    \E c \in inflight :
        /\ c.op = "ResizeVhd"
        /\ \/ Exists(c.path) /\ Return(c, Nil, Nil, 1, ZeroVal) /\ fs' = Resized(c)
           \/ \E k \in RunErrKinds :
                /\ Exists(c.path) \/ k = "RemoteScriptFailure"
                /\ Return(c, Err(k), Err(k), 1, ZeroVal)
                /\ fs' \in IF k = "Timeout" THEN {fs, Resized(c)} ELSE {fs}
        /\ ClientFrame

DeleteVhd ==
    \E c \in inflight :
        /\ c.op = "DeleteVhd"
        /\ \/ Return(c, Nil, Nil, 1, ZeroVal) /\ fs' = Without(c.path)
           \/ \E k \in RunErrKinds :
                /\ Return(c, Err(k), Err(k), 1, ZeroVal)
                /\ fs' \in IF k = "Timeout" THEN {fs, Without(c.path)} ELSE {fs}
        /\ ClientFrame

\* RunFireAndForgetScript / RunScriptWithResult: the outcomes of one run
RunnerErrs(kinds) == {Err(k) : k \in kinds}

\* CreateDvd: one run of createDvdTemplate, its error returned as it is.  A run
\* that fails or times out has executed the script up to some statement.
CreateDvd ==
    \E c \in inflight :
        /\ c.op = "CreateDvd"
        /\ LET run == RunCreateDvd(fs, c.path, c.ip)
           IN  \/ /\ run.st.pc = "ok" /\ run.st.native
                  /\ Return(c, Nil, Nil, 1, ZeroVal)
                  /\ fs' = run.fs
               \/ \E e \in RunnerErrs(RunErrKinds) :
                    /\ Return(c, e, e, 1, ZeroVal)
                    /\ IF e.kind = "TransportFailure" THEN fs' = fs
                       ELSE \E stop \in ScriptPcs :
                              fs' = RunUntil([st |-> StartScript(c.path, c.ip),
                                              fs |-> fs], stop).fs
        /\ ClientFrame

\* getDvdTemplate: Test-Path $path, then the payload or {}
DvdOf(path, ip) ==
    IF Exists(path) THEN [Path |-> path, Ip |-> ip] ELSE [Path |-> NoPath, Ip |-> NoIp]

GetDvd ==
    \E c \in inflight :
        /\ c.op = "GetDvd"
        /\ \/ Return(c, Nil, Nil, 1, DvdOf(c.path, c.ip))
           \/ \E e \in RunnerErrs(ErrKinds) : Return(c, e, e, 1, DvdOf(NoPath, NoIp))
        /\ UNCHANGED fs
        /\ ClientFrame

\* deleteDvdTemplate: every item of the target's directory whose BaseName
\* starts with the target's name without its extension is removed
DeleteDvdTargets(path) ==
    {q \in DOMAIN fs.files : q.dir = path.dir /\ IsPrefix(path.base, q.base)}

AfterDeleteDvd(path) == [fs EXCEPT !.files = Drop(fs.files, DeleteDvdTargets(path))]

DeleteDvd ==
    \E c \in inflight :
        /\ c.op = "DeleteDvd"
        /\ \/ /\ c.path.dir \in fs.dirs
              /\ Return(c, Nil, Nil, 1, ZeroVal)
              /\ fs' = AfterDeleteDvd(c.path)
           \/ \E e \in RunnerErrs(RunErrKinds) :
                /\ c.path.dir \in fs.dirs \/ e.kind = "RemoteScriptFailure"
                /\ Return(c, e, e, 1, ZeroVal)
                /\ fs' \in IF e.kind = "Timeout" THEN {fs, AfterDeleteDvd(c.path)} ELSE {fs}
        /\ ClientFrame

----------------------------------------------------------------------------
(* Handlers *)

HandlerFrame == UNCHANGED <<decl, cfg, valid, tfstate, fs, scripts>>

\* the framework calls handler name with resource data dd
Enter(name, dd) ==
    /\ pc = "idle"
    /\ h' = name
    /\ d' = dd
    /\ sets' = <<>>
    /\ ret' = NoRet

\* return ds
Done(ds) ==
    /\ pc' = "done"
    /\ diags' = ds
    /\ UNCHANGED <<inflight, calls>>

\* the handler going on without awaiting its client call
ReturnedNoAwait(at) == pc = at

\* the awaited client call has returned
Returned(at) == pc = at /\ inflight = {}

Keep == UNCHANGED <<h, d, sets, ret>>

CreateOrUpdateVhdCall(dd, path) ==
    Call("CreateOrUpdateVhd", path, NoIp, dd.attrs["size"], dd.attrs["parent_path"])

ResizeVhdCall(dd, path) == Call("ResizeVhd", path, NoIp, dd.attrs["size"], "")

GetVhdCall(path) == Call("GetVhd", path, NoIp, 0, "")

\* a resize for every size, 0 included
NeedsResizeAnySize(size, parentPath) == size >= 0 /\ parentPath = ""

\* if size > 0 && parentPath == ""
NeedsResize(size, parentPath) == size > 0 /\ parentPath = ""

\* d.SetId(path), then resourceHyperVVhdRead up to its call of GetVhd
SetIdAndRead(path) ==
    /\ d' = [d EXCEPT !.id = path]
    /\ Issue(GetVhdCall(path))
    /\ pc' = "r_get"
    /\ UNCHANGED <<h, sets, ret, diags>>

resourceHyperVVhdCreate ==
    /\ decl.kind = "vhd" /\ valid /\ tfstate.id = NoPath
    \* the framework marks the resource data new before it calls create
    /\ \E isNew \in {TRUE} :
        LET dd == [id |-> NoPath, isNew |-> isNew,
                   attrs |-> PlannedVhdAttrs(cfg, decl.path, tfstate.attrs, FALSE)]
            path == dd.attrs["path"]
        IN  /\ Enter("resourceHyperVVhdCreate", dd)
            /\ IF path = NoPath
               THEN Done(DiagErrorf("path argument is required"))
               ELSE /\ diags' = <<>>
                    /\ IF isNew
                       THEN Issue(Call("VhdExists", path, NoIp, 0, "")) /\ pc' = "c_exists"
                       ELSE Issue(CreateOrUpdateVhdCall(dd, path)) /\ pc' = "c_create"
    /\ HandlerFrame

\* the pre-check never finding a disk
AlreadyExistsNever(existing) == FALSE

\* if existing.Exists
AlreadyExists(existing) == existing.Exists

VhdCreateAfterExists ==
    /\ Returned("c_exists")
    /\ IF Failed(ret.err)
       THEN Done(FromErr(FmtErrorf("checking for existing", ret.err)))
       ELSE IF AlreadyExists(ret.val)
       THEN Done(FromErr([kind |-> "errorString",
                          msg |-> <<"already exists - needs to be imported">>]))
       ELSE /\ Issue(CreateOrUpdateVhdCall(d, d.attrs["path"]))
            /\ pc' = "c_create"
            /\ UNCHANGED diags
    /\ Keep
    /\ HandlerFrame

VhdCreateAfterCreate ==
    /\ Returned("c_create")
    /\ IF Failed(ret.err)
       THEN Done(FromErr(ret.err)) /\ Keep
       ELSE IF NeedsResize(d.attrs["size"], d.attrs["parent_path"])
       THEN /\ Issue(ResizeVhdCall(d, d.attrs["path"]))
            /\ pc' = "c_resize"
            /\ UNCHANGED diags
            /\ Keep
       ELSE SetIdAndRead(d.attrs["path"])
    /\ HandlerFrame

VhdCreateAfterResize ==
    /\ Returned("c_resize")
    /\ IF Failed(ret.err)
       THEN Done(FromErr(ret.err)) /\ Keep
       ELSE SetIdAndRead(d.attrs["path"])
    /\ HandlerFrame

\* exists computed the other way round
VhdReadExistsInverted(vhd) == vhd.Path = NoPath

\* exists is true when the lookup returned a populated payload
VhdReadExists(vhd) == vhd.Path # NoPath

\* the d.Set calls of resourceHyperVVhdRead
VhdReadSets(vhd) ==
    <<KV("path", vhd.Path), KV("exists", VhdReadExists(vhd)),
      KV("vhd_type", vhd.VhdType)>>
    \o (IF vhd.VhdType = "Differencing"
        THEN <<KV("parent_path", vhd.ParentPath)>>
        ELSE <<KV("size", vhd.Size), KV("block_size", 0),
               KV("logical_sector_size", 0), KV("physical_sector_size", 0)>>)

resourceHyperVVhdRead ==
    /\ decl.kind = "vhd" /\ valid /\ tfstate.id # NoPath
    /\ Enter("resourceHyperVVhdRead",
             [id |-> tfstate.id, isNew |-> FALSE, attrs |-> tfstate.attrs])
    /\ Issue(GetVhdCall(tfstate.id))
    /\ pc' = "r_get"
    /\ diags' = <<>>
    /\ HandlerFrame

\* resourceHyperVVhdRead after GetVhd, also as the tail of create and update
VhdReadAfterGet ==
    /\ Returned("r_get")
    /\ IF Failed(ret.err)
       THEN Done(FromErr(ret.err)) /\ Keep
       ELSE LET res == ApplySets(d.attrs, sets, VhdReadSets(ret.val))
            IN  /\ d' = [d EXCEPT !.attrs = res.attrs]
                /\ sets' = res.log
                /\ Done(FromErr(res.err))
                /\ UNCHANGED <<h, ret>>
    /\ HandlerFrame

\* a change of size taken for a reason to create the disk again
UpdateRecreatesOnSize(dd) ==
    \/ ~dd.attrs["exists"]
    \/ \E k \in {"path", "source", "source_vm", "source_disk", "parent_path", "size"} :
            HasChange(dd, k)

\* the condition under which update calls CreateOrUpdateVhd
UpdateRecreates(dd) ==
    \/ ~dd.attrs["exists"]
    \/ \E k \in {"path", "source", "source_vm", "source_disk", "parent_path"} :
            HasChange(dd, k)

\* the condition under which update calls ResizeVhd
UpdateResizes(dd) ==
    /\ NeedsResize(dd.attrs["size"], dd.attrs["parent_path"])
    /\ ~dd.attrs["exists"] \/ HasChange(dd, "size")

\* resourceHyperVVhdUpdate from its resize step on
UpdateResizeOrRead(dd) ==
    IF UpdateResizes(dd)
    THEN Issue(ResizeVhdCall(dd, dd.id)) /\ pc' = "u_resize"
    ELSE Issue(GetVhdCall(dd.id)) /\ pc' = "r_get"

resourceHyperVVhdUpdate ==
    /\ decl.kind = "vhd" /\ valid /\ tfstate.id # NoPath /\ ~tfstate.tainted
    /\ \E local \in BOOLEAN :
        LET dd == [id |-> tfstate.id, isNew |-> FALSE,
                   attrs |-> PlannedVhdAttrs(cfg, decl.path, tfstate.attrs, local)]
        IN  /\ dd.attrs # tfstate.attrs
            /\ Enter("resourceHyperVVhdUpdate", dd)
            /\ diags' = <<>>
            /\ IF UpdateRecreates(dd)
               THEN Issue(CreateOrUpdateVhdCall(dd, dd.id)) /\ pc' = "u_create"
               ELSE UpdateResizeOrRead(dd)
    /\ HandlerFrame

VhdUpdateAfterCreate ==
    /\ Returned("u_create")
    /\ IF Failed(ret.err)
       THEN Done(FromErr(ret.err))
       ELSE UpdateResizeOrRead(d) /\ UNCHANGED diags
    /\ Keep
    /\ HandlerFrame

VhdUpdateAfterResize ==
    /\ Returned("u_resize")
    /\ IF Failed(ret.err)
       THEN Done(FromErr(ret.err))
       ELSE Issue(GetVhdCall(d.id)) /\ pc' = "r_get" /\ UNCHANGED diags
    /\ Keep
    /\ HandlerFrame

resourceHyperVVhdDelete ==
    /\ decl.kind = "vhd" /\ valid /\ tfstate.id # NoPath
    /\ Enter("resourceHyperVVhdDelete",
             [id |-> tfstate.id, isNew |-> FALSE, attrs |-> tfstate.attrs])
    /\ Issue(Call("DeleteVhd", tfstate.id, NoIp, 0, ""))
    /\ pc' = "x_delete"
    /\ diags' = <<>>
    /\ HandlerFrame

VhdDeleteAfterDelete ==
    /\ Returned("x_delete")
    /\ Done(FromErr(ret.err))
    /\ Keep
    /\ HandlerFrame

resourceHyperVDvdCreate ==
    /\ decl.kind = "dvd" /\ tfstate.id = NoPath
    /\ Enter("resourceHyperVDvdCreate",
             [id |-> NoPath, isNew |-> TRUE,
              attrs |-> [ZeroAttrs("dvd") EXCEPT !["path"] = decl.path,
                                                 !["ip"] = decl.ip]])
    /\ Issue(Call("CreateDvd", decl.path, decl.ip, 0, ""))
    /\ pc' = "dc_create"
    /\ diags' = <<>>
    /\ HandlerFrame

DvdCreateAfterCreate ==
    /\ Returned("dc_create")
    /\ IF Failed(ret.err)
       THEN Done(FromErr(ret.err)) /\ UNCHANGED d
       ELSE d' = [d EXCEPT !.id = d.attrs["path"]] /\ Done(<<>>)
    /\ UNCHANGED <<h, sets, ret>>
    /\ HandlerFrame

\* exists as resourceHyperVDvdRead computes it
DvdReadExists(dvd) == dvd.Path # NoPath

resourceHyperVDvdRead ==
    /\ decl.kind = "dvd" /\ tfstate.id # NoPath
    /\ Enter("resourceHyperVDvdRead",
             [id |-> tfstate.id, isNew |-> FALSE, attrs |-> tfstate.attrs])
    /\ Issue(Call("GetDvd", tfstate.id, tfstate.attrs["ip"], 0, ""))
    /\ pc' = "dr_get"
    /\ diags' = <<>>
    /\ HandlerFrame

DvdReadAfterGet ==
    /\ Returned("dr_get")
    /\ IF Failed(ret.err)
       THEN Done(FromErr(ret.err)) /\ Keep
       ELSE LET res == ApplySets(d.attrs, sets,
                         <<KV("path", ret.val.Path),
                           KV("exists", DvdReadExists(ret.val))>>)
            IN  /\ d' = [d EXCEPT !.attrs = res.attrs]
                /\ sets' = res.log
                /\ Done(FromErr(res.err))
                /\ UNCHANGED <<h, ret>>
    /\ HandlerFrame

resourceHyperVDvdDelete ==
    /\ decl.kind = "dvd" /\ tfstate.id # NoPath
    /\ Enter("resourceHyperVDvdDelete",
             [id |-> tfstate.id, isNew |-> FALSE, attrs |-> tfstate.attrs])
    /\ Issue(Call("DeleteDvd", tfstate.id, NoIp, 0, ""))
    /\ pc' = "dx_delete"
    /\ diags' = <<>>
    /\ HandlerFrame

DvdDeleteAfterDelete ==
    /\ Returned("dx_delete")
    /\ Done(FromErr(ret.err))
    /\ Keep
    /\ HandlerFrame

\* exists as datasourceHyperVDvdRead computes it: false when vhd.Path != ""
DsDvdReadExists(vhd) == ~(vhd.Path # NoPath)

datasourceHyperVDvdRead ==
    /\ decl.kind = "ds"
    /\ Enter("datasourceHyperVDvdRead",
             [id |-> NoPath, isNew |-> FALSE,
              attrs |-> [ZeroAttrs("ds") EXCEPT !["path"] = decl.path]])
    /\ IF decl.path = NoPath
       THEN Done(DiagErrorf("path argument is required"))
       ELSE /\ Issue(GetVhdCall(decl.path))
            /\ pc' = "ds_get"
            /\ diags' = <<>>
    /\ HandlerFrame

DsDvdReadAfterGet ==
    /\ Returned("ds_get")
    /\ IF Failed(ret.err)
       THEN Done(FromErr(ret.err)) /\ Keep
       ELSE LET res == ApplySets(d.attrs, sets,
                         <<KV("path", ret.val.Path),
                           KV("exists", DsDvdReadExists(ret.val))>>)
            IN  /\ d' = [id |-> IF Failed(res.err) THEN d.id ELSE decl.path,
                         isNew |-> d.isNew, attrs |-> res.attrs]
                /\ sets' = res.log
                /\ Done(FromErr(res.err))
                /\ UNCHANGED <<h, ret>>
    /\ HandlerFrame

----------------------------------------------------------------------------
(* The framework around the handlers *)

Saved(dd) == [id |-> dd.id, attrs |-> dd.attrs, tainted |-> FALSE]

\* what the framework persists when handler name returns dd and ds
Persist(name, dd, ds) ==
    CASE name \in {"resourceHyperVVhdCreate", "resourceHyperVDvdCreate"} ->
            IF dd.id # NoPath THEN [Saved(dd) EXCEPT !.tainted = HasError(ds)] ELSE tfstate
      [] name \in {"resourceHyperVVhdRead", "resourceHyperVDvdRead",
                   "datasourceHyperVDvdRead"} ->
            IF HasError(ds) THEN tfstate
            ELSE [Saved(dd) EXCEPT !.tainted = tfstate.tainted]
      [] name = "resourceHyperVVhdUpdate" -> Saved(dd)
      [] OTHER -> IF HasError(ds) THEN tfstate ELSE EmptyState(decl.kind)

NoData == [id |-> NoPath, isNew |-> FALSE, attrs |-> <<>>]

\* the handler has returned: the framework stores the state
FrameworkReturn ==
    /\ pc = "done"
    /\ tfstate' = Persist(h, d, diags)
    /\ pc' = "idle"
    /\ h' = "none"
    /\ d' = NoData
    /\ ret' = NoRet
    /\ calls' = <<>>
    /\ sets' = <<>>
    /\ diags' = <<>>
    /\ UNCHANGED <<decl, cfg, valid, fs, inflight, scripts>>

\* the operator edits the hyperv_vhd configuration; the schema validates it
EditConfig ==
    /\ decl.kind = "vhd" /\ pc = "idle"
    /\ \E c \in Configs :
        /\ WellFormed(c) /\ c # cfg
        /\ cfg' = c
        /\ valid' = Validate(c)
    /\ UNCHANGED <<decl, tfstate, fs, h, pc, d, inflight, ret, calls, sets, diags,
                   scripts>>

----------------------------------------------------------------------------
(* Specification *)

EmptyFs == [dirs |-> {}, files |-> NoFiles]

Decls ==
    {[kind |-> "vhd", path |-> p, ip |-> NoIp] : p \in VhdPaths \cup {NoPath}}
    \cup {[kind |-> "dvd", path |-> p, ip |-> i] : p \in DvdPaths, i \in Ips}
    \cup {[kind |-> "ds", path |-> p, ip |-> NoIp] : p \in VhdPaths \cup {NoPath}}

\* a disk that is on the host before the run
DiskAt(path, size, parent) ==
    [dirs |-> MkDirs({}, path.dir),
     files |-> Put(NoFiles, path, [type |-> "vhd", size |-> size, parent |-> parent])]

InitFs(dc) ==
    IF dc.path = NoPath THEN {EmptyFs}
    ELSE IF dc.kind = "dvd"
    THEN {EmptyFs, [dirs |-> MkDirs({}, Root), files |-> NoFiles],
          [dirs |-> MkDirs({}, dc.path.dir), files |-> NoFiles]}
    ELSE {EmptyFs, DiskAt(dc.path, BlockUnit, ""), DiskAt(dc.path, 0, "P")}

Idle ==
    /\ h = "none"
    /\ pc = "idle"
    /\ d = NoData
    /\ inflight = {}
    /\ ret = NoRet
    /\ calls = <<>>
    /\ sets = <<>>
    /\ diags = <<>>

Init ==
    /\ decl \in Decls
    /\ cfg = [set |-> {}, size |-> 0]
    /\ valid = TRUE
    /\ tfstate = EmptyState(decl.kind)
    /\ fs \in InitFs(decl)
    /\ Idle
    /\ scripts = <<>>

Next ==
    \/ EditConfig
    \/ resourceHyperVVhdCreate
    \/ VhdCreateAfterExists
    \/ VhdCreateAfterCreate
    \/ VhdCreateAfterResize
    \/ resourceHyperVVhdRead
    \/ VhdReadAfterGet
    \/ resourceHyperVVhdUpdate
    \/ VhdUpdateAfterCreate
    \/ VhdUpdateAfterResize
    \/ resourceHyperVVhdDelete
    \/ VhdDeleteAfterDelete
    \/ resourceHyperVDvdCreate
    \/ DvdCreateAfterCreate
    \/ resourceHyperVDvdRead
    \/ DvdReadAfterGet
    \/ resourceHyperVDvdDelete
    \/ DvdDeleteAfterDelete
    \/ datasourceHyperVDvdRead
    \/ DsDvdReadAfterGet
    \/ VhdExists
    \/ GetVhd
    \/ CreateOrUpdateVhd
    \/ ResizeVhd
    \/ DeleteVhd
    \/ CreateDvd
    \/ GetDvd
    \/ DeleteDvd
    \/ FrameworkReturn

Spec == Init /\ [][Next]_vars

----------------------------------------------------------------------------
(* Two CreateDvd calls whose scripts run on the host at the same time *)

Workers == {1, 2}

ConcInit ==
    /\ decl = [kind |-> "conc", path |-> NoPath, ip |-> NoIp]
    /\ cfg = [set |-> {}, size |-> 0]
    /\ valid = TRUE
    /\ tfstate = EmptyState("dvd")
    /\ fs \in {EmptyFs, [dirs |-> MkDirs({}, Root), files |-> NoFiles]}
    /\ Idle
    /\ \E p1, p2 \in DvdPaths, i1, i2 \in Ips :
        /\ p1 # p2 /\ i1 # i2
        /\ scripts = [w \in Workers |->
                        IF w = 1 THEN StartScript(p1, i1) ELSE StartScript(p2, i2)]

\* the script of worker w executes its next statement
ScriptStep(w) ==
    /\ scripts[w].pc \in ScriptPcs
    /\ LET r == DvdStep([st |-> scripts[w], fs |-> fs])
       IN  /\ scripts' = [scripts EXCEPT ![w] = r.st]
           /\ fs' = r.fs
    /\ UNCHANGED <<decl, cfg, valid, tfstate, h, pc, d, inflight, ret, calls, sets,
                   diags>>

ConcNext == \E w \in Workers : ScriptStep(w)

ConcSpec == ConcInit /\ [][ConcNext]_vars

----------------------------------------------------------------------------
(* CreateDvd called twice in a row with the same path and ip, for a path     *)
(* whose parent folder does not exist                                        *)

\* a staging directory an earlier run that failed has left behind
StaleTmp(path, ip) ==
    [dirs |-> MkDirs({}, TmpPath(path)),
     files |-> Put(NoFiles, YamlFile(path), [type |-> "yaml", ip |-> ip])]

TwiceInit ==
    /\ decl = [kind |-> "twice", path |-> NoPath, ip |-> NoIp]
    /\ cfg = [set |-> {}, size |-> 0]
    /\ valid = TRUE
    /\ tfstate = EmptyState("dvd")
    /\ Idle
    /\ \E p \in DvdPaths, i \in Ips :
        /\ fs \in {f \in {EmptyFs, [dirs |-> MkDirs({}, Root), files |-> NoFiles]}
                        \cup {StaleTmp(p, j) : j \in Ips} :
                    FolderPath(p) \notin f.dirs}
        /\ scripts = [w \in {1} |->
                        [path |-> p, ip |-> i, pc |-> "s37", native |-> TRUE,
                         run |-> 1, snap |-> EmptyFs]]

\* the first call has returned with success; the second call starts
CreateDvdAgain ==
    /\ scripts[1].pc = "ok" /\ scripts[1].native /\ scripts[1].run = 1
    /\ scripts' = [scripts EXCEPT ![1].pc = "s37", ![1].run = 2, ![1].snap = fs]
    /\ UNCHANGED <<decl, cfg, valid, tfstate, fs, h, pc, d, inflight, ret, calls,
                   sets, diags>>

TwiceNext == ScriptStep(1) \/ CreateDvdAgain

TwiceSpec == TwiceInit /\ [][TwiceNext]_vars

----------------------------------------------------------------------------
(* A hyperv_dvd that was created, in a directory that holds the files of     *)
(* other managed resources; it is read and deleted                           *)

\* the image createDvdTemplate leaves at a path for ip
IsoWith(ip) ==
    [type |-> "iso", net |-> ip, names |-> {[base |-> <<"n">>, ext |-> "yaml"]}]

\* the files of the other managed DVDs and disks in the directory of path
Neighbours(path) ==
    {q \in DvdPaths \cup VhdPaths : q.dir = path.dir /\ q # path}

\* the host with the DVD at path and every neighbour of it
HostWith(path, ip, nip) ==
    [dirs |-> MkDirs({}, path.dir),
     files |-> [q \in {path} \cup Neighbours(path) |->
                    IF q = path THEN IsoWith(ip)
                    ELSE IF q.ext = "iso" THEN IsoWith(nip)
                    ELSE [type |-> "vhd", size |-> BlockUnit, parent |-> ""]]]

DeleteInit ==
    /\ decl \in {dc \in Decls : dc.kind = "dvd"}
    /\ cfg = [set |-> {}, size |-> 0]
    /\ valid = TRUE
    \* exists is false after create and true after a read
    /\ \E e \in BOOLEAN :
        tfstate = [id |-> decl.path,
                   attrs |-> [ZeroAttrs("dvd") EXCEPT !["path"] = decl.path,
                                                      !["ip"] = decl.ip,
                                                      !["exists"] = e],
                   tainted |-> FALSE]
    /\ \E nip \in Ips : fs = HostWith(decl.path, decl.ip, nip)
    /\ Idle
    /\ scripts = <<>>

DeleteNext ==
    \/ resourceHyperVDvdRead
    \/ DvdReadAfterGet
    \/ GetDvd
    \/ resourceHyperVDvdDelete
    \/ DvdDeleteAfterDelete
    \/ DeleteDvd
    \/ FrameworkReturn

DeleteSpec == DeleteInit /\ [][DeleteNext]_vars

----------------------------------------------------------------------------
(* Reading the logs of an invocation *)

Starts(op) == Cardinality({i \in 1..Len(calls) : calls[i] = [op |-> op, ev |-> "start"]})

Ok(op) == \E i \in 1..Len(calls) : calls[i] = [op |-> op, ev |-> "ok"]

IsError(e) == e.ev \in ErrKinds

\* a client call of this invocation returned an error
ClientFailed == \E i \in 1..Len(calls) : IsError(calls[i])

\* the handler returned and its last client call returned no error
LookedUp(name, op) ==
    pc = "done" /\ h = name /\ ret.op = op /\ ret.err = Nil

Populated == ret.val.Path # NoPath

\* the values resourceHyperVVhdCreate reads with d.Get
CreateArgs == PlannedVhdAttrs(cfg, decl.path, tfstate.attrs, FALSE)

----------------------------------------------------------------------------
(* Claims *)

\* C1: in resourceHyperVDvdRead and datasourceHyperVDvdRead, after a lookup
\* that succeeded, the value written to exists is true exactly when the lookup
\* returned a populated payload (non-empty Path).
C1_DvdReadsSetExistsIffPopulated ==
    (LookedUp("resourceHyperVDvdRead", "GetDvd")
        \/ LookedUp("datasourceHyperVDvdRead", "GetVhd"))
    => /\ \E i \in 1..Len(sets) : sets[i].key = "exists"
       /\ \A i \in 1..Len(sets) : sets[i].key = "exists" => sets[i].val = Populated

\* C2: resourceHyperVVhdRead returns GetVhd's error when there is one; with
\* the zero-value result it returns no error and sets exists=false; with a
\* populated result it returns no error, sets exists=true and path to the
\* returned Path.  A missing disk is never an error.
C2_VhdReadThreeOutcomes ==
    (pc = "done" /\ decl.kind = "vhd" /\ ret.op = "GetVhd")
    => /\ Failed(ret.err) => diags = FromErr(ret.err) /\ HasError(diags)
       /\ (ret.err = Nil /\ ~Populated) => diags = <<>> /\ ~d.attrs["exists"]
       /\ (ret.err = Nil /\ Populated)
            => diags = <<>> /\ d.attrs["exists"] /\ d.attrs["path"] = ret.val.Path

\* C2 witness: a read of a disk that is not there has returned without error
C2_Witness ==
    /\ LookedUp("resourceHyperVVhdRead", "GetVhd")
    /\ ~Populated
    /\ ~Exists(d.id)
    /\ diags = <<>>
    /\ ~d.attrs["exists"]

\* C3: in resourceHyperVVhdCreate, ResizeVhd is invoked once if
\* CreateOrUpdateVhd succeeded, size > 0 and parent_path is empty, and not at
\* all otherwise; a create that does not resize still succeeds when the
\* creation and the read succeed.
C3_CreateResizesIffSizedAndNoParent ==
    h = "resourceHyperVVhdCreate"
    => LET wanted == CreateArgs["size"] > 0 /\ CreateArgs["parent_path"] = ""
       IN  /\ Starts("ResizeVhd") <= 1
           /\ Starts("ResizeVhd") = 1 => Ok("CreateOrUpdateVhd") /\ wanted
           /\ (Ok("CreateOrUpdateVhd") /\ wanted /\ pc \in {"c_resize", "r_get", "done"})
                => Starts("ResizeVhd") = 1
           /\ (pc = "done" /\ Ok("CreateOrUpdateVhd") /\ ~wanted /\ Ok("GetVhd"))
                => diags = <<>> /\ d.id = decl.path

\* C3 witness: a differencing disk (parent_path set, size 0) was created with
\* success and without a resize
C3_Witness ==
    /\ h = "resourceHyperVVhdCreate" /\ pc = "done"
    /\ CreateArgs["parent_path"] = "P" /\ CreateArgs["size"] = 0
    /\ Ok("CreateOrUpdateVhd") /\ Ok("GetVhd")
    /\ Starts("ResizeVhd") = 0
    /\ diags = <<>>

\* C4: resourceHyperVVhdCreate, resourceHyperVVhdUpdate and
\* resourceHyperVDvdCreate report success only after a Get call that followed
\* the mutation has returned.
C4_SuccessOnlyAfterReRead ==
    (pc = "done" /\ ~HasError(diags)
        /\ h \in {"resourceHyperVVhdCreate", "resourceHyperVVhdUpdate",
                  "resourceHyperVDvdCreate"})
    => /\ calls # <<>>
       /\ calls[Len(calls)].op \in {"GetVhd", "GetDvd"}
       /\ calls[Len(calls)].ev = "ok"

CreateHandlers == {"resourceHyperVVhdCreate", "resourceHyperVDvdCreate"}

\* what C5 says of every handler but for the resource ID
ErrorEndsInvocation ==
    /\ IsError(calls[Len(calls)])
    /\ Cardinality({i \in 1..Len(calls) : IsError(calls[i])}) = 1
    /\ inflight = {}
    /\ pc = "done" => HasError(diags)

\* C5 as stated: once a client call of an invocation has returned an error,
\* no further client call is issued, the handler returns an error diagnostic
\* and never success, and a create handler leaves the resource ID unset.
C5_ClientErrorFailsHandlerIdUnset ==
    ClientFailed
    => /\ ErrorEndsInvocation
       /\ h \in CreateHandlers => d.id = NoPath

\* C5 amended: as C5, but the resource ID is unset only when the failing call
\* comes before d.SetId: when the verifying GetVhd of resourceHyperVVhdCreate
\* fails, the ID is already the path.
C5_ClientErrorFailsHandler ==
    ClientFailed
    => /\ ErrorEndsInvocation
       /\ h \in CreateHandlers
            => d.id = IF calls[Len(calls)].op = "GetVhd" THEN decl.path ELSE NoPath

\* C5 witness: resourceHyperVVhdCreate returned the error of its GetVhd, with
\* the ID set
C5_Witness ==
    /\ h = "resourceHyperVVhdCreate" /\ pc = "done"
    /\ ClientFailed
    /\ ret.op = "GetVhd"
    /\ HasError(diags)
    /\ d.id = decl.path /\ d.id # NoPath

\* C6: CreateDvd, GetDvd and DeleteDvd run the runner once and return its
\* error as it is, and a handler that returns because a client call failed
\* hands the framework that error, unchanged.
C6_ErrorsReachFrameworkUnchanged ==
    /\ ret.op \in {"CreateDvd", "GetDvd", "DeleteDvd"}
        => ret.runs = 1 /\ ret.err = ret.rerr
    /\ (pc = "done" /\ ClientFailed) => diags = FromErr(ret.err)

ExclusiveSources == {"source", "source_vm", "source_disk", "parent_path"}

\* the configurations C9 is about
Contradictory(c) ==
    \/ Cardinality(c.set \cap ExclusiveSources) >= 2
    \/ {"size", "parent_path"} \subseteq c.set

\* C9: a hyperv_vhd configuration that sets two or more of source, source_vm,
\* source_disk, parent_path, or both size and parent_path, has a set field
\* whose ConflictsWith lists another set field; it is rejected and no handler
\* runs and no client call is made for it; ConflictsWith is symmetric among
\* these fields.
C9_ContradictoryConfigRejected ==
    /\ Contradictory(cfg)
        => /\ \E k \in cfg.set : ConflictsWith(k) \cap cfg.set # {}
           /\ ~valid
           /\ pc = "idle" /\ calls = <<>> /\ inflight = {}
    /\ \A k, j \in OptionalKeys : j \in ConflictsWith(k) => k \in ConflictsWith(j)

\* C9 witness: a managed disk whose configuration was edited to set both size
\* and parent_path
C9_Witness ==
    /\ cfg.set = {"size", "parent_path"}
    /\ ~valid
    /\ tfstate.id # NoPath

Rank(op) ==
    CASE op = "VhdExists" -> 1
      [] op = "CreateOrUpdateVhd" -> 2
      [] op = "ResizeVhd" -> 3
      [] OTHER -> 4

\* C10: in resourceHyperVVhdCreate and resourceHyperVVhdUpdate at most one
\* client call is in flight; a call starts only after the call before it has
\* returned; the calls come in the order VhdExists, CreateOrUpdateVhd,
\* ResizeVhd, GetVhd; VhdExists has returned before CreateOrUpdateVhd starts
\* for a new resource; ResizeVhd and GetVhd start only after every call before
\* them has returned without error.
C10_CallsStrictlySequenced ==
    h \in {"resourceHyperVVhdCreate", "resourceHyperVVhdUpdate"}
    => /\ Cardinality(inflight) <= 1
       /\ \A i \in 1..Len(calls) :
            /\ calls[i].ev = "start"
                => IF i = Len(calls)
                   THEN \E c \in inflight : c.op = calls[i].op
                   ELSE calls[i + 1].op = calls[i].op /\ calls[i + 1].ev # "start"
            /\ calls[i].ev # "start" => i > 1 /\ calls[i - 1] = [op |-> calls[i].op, ev |-> "start"]
            /\ \A j \in 1..Len(calls) : i < j => Rank(calls[i].op) <= Rank(calls[j].op)
            /\ (calls[i].ev = "start" /\ calls[i].op \in {"ResizeVhd", "GetVhd"})
                => \A j \in 1..(i - 1) : ~IsError(calls[j])
            /\ (calls[i] = [op |-> "CreateOrUpdateVhd", ev |-> "start"]
                    /\ h = "resourceHyperVVhdCreate" /\ d.isNew)
                => i = 3 /\ calls[2] = [op |-> "VhdExists", ev |-> "ok"]
            /\ (calls[i] = [op |-> "ResizeVhd", ev |-> "start"]
                    /\ h = "resourceHyperVVhdCreate")
                => calls[i - 1] = [op |-> "CreateOrUpdateVhd", ev |-> "ok"]

\* C10 witness: a create that checked, created, resized and read, in this order
C10_Witness ==
    /\ h = "resourceHyperVVhdCreate" /\ pc = "done"
    /\ Len(calls) = 8
    /\ calls[1].op = "VhdExists" /\ calls[3].op = "CreateOrUpdateVhd"
    /\ calls[5].op = "ResizeVhd" /\ calls[7].op = "GetVhd"
    /\ diags = <<>>

\* C7: two CreateDvd scripts that run at the same time for different paths
\* and ips both complete with success, and the image each has written holds
\* the network settings of its own invocation.
C7_ConcurrentCreatesIndependent ==
    \A w \in Workers :
        LET s == scripts[w]
        IN  /\ s.pc # "err" /\ s.native
            /\ (s.pc \in {"s50", "ok"} /\ FolderPath(s.path) # TmpPath(s.path))
                => Exists(s.path) /\ fs.files[s.path].net = s.ip

\* C8: for a path whose parent folder does not exist, CreateDvd creates the
\* folder and the image and succeeds; a second CreateDvd with the same path
\* and ip succeeds too and leaves the file system as the first call left it:
\* the folder, the image, no staging directory.
C8_CreateDvdIdempotent ==
    LET s == scripts[1]
    IN  /\ s.pc # "err" /\ s.native
        /\ s.pc = "ok"
            => /\ FolderPath(s.path) \in fs.dirs
               /\ Exists(s.path) /\ fs.files[s.path].net = s.ip
               /\ TmpPath(s.path) \notin fs.dirs
        /\ (s.pc = "ok" /\ s.run = 2) => fs = s.snap

\* the pre-check of a new resource has returned in this invocation of create
PreChecked ==
    h = "resourceHyperVVhdCreate" /\ d.isNew /\ ret.op = "VhdExists"

\* no call that could change or adopt the disk was made in this invocation
NothingAfterPreCheck ==
    /\ \A op \in {"CreateOrUpdateVhd", "ResizeVhd", "GetVhd", "DeleteVhd"} : Starts(op) = 0
    /\ inflight = {}
    /\ d.id = NoPath

\* C11: resourceHyperVVhdCreate never overwrites an existing disk: for a new
\* resource, when VhdExists reports Exists = true the handler returns the
\* "already exists - needs to be imported" error, calls neither
\* CreateOrUpdateVhd nor ResizeVhd nor GetVhd and leaves the ID unset; when
\* VhdExists fails it returns an error, again without any such call.  Every
\* create of a new resource that does call CreateOrUpdateVhd has seen
\* VhdExists report that no disk is there.
C11_CreateNeverOverwritesExistingDisk ==
    /\ (PreChecked /\ ret.err = Nil /\ ret.val.Exists)
        => /\ NothingAfterPreCheck
           /\ pc \in {"c_exists", "done"}
           /\ pc = "done"
                => diags = <<[severity |-> "Error",
                              summary |-> <<"already exists - needs to be imported">>]>>
    /\ (PreChecked /\ ret.err # Nil)
        => /\ NothingAfterPreCheck
           /\ pc \in {"c_exists", "done"}
           /\ pc = "done" => HasError(diags)
    /\ (h = "resourceHyperVVhdCreate" /\ d.isNew /\ Starts("CreateOrUpdateVhd") > 0)
        => /\ calls[1] = [op |-> "VhdExists", ev |-> "start"]
           /\ calls[2] = [op |-> "VhdExists", ev |-> "ok"]
           /\ calls[3] = [op |-> "CreateOrUpdateVhd", ev |-> "start"]
           /\ \A i \in 1..Len(calls) : calls[i].op # "VhdExists" \/ i <= 2

\* create of a new resource has returned the import error for a disk that is
\* on the host, which is as it was
C11_Witness ==
    /\ PreChecked /\ ret.err = Nil /\ ret.val.Exists
    /\ pc = "done" /\ HasError(diags)
    /\ Exists(d.attrs["path"])
    /\ fs = DiskAt(d.attrs["path"], BlockUnit, "")

\* resourceHyperVVhdUpdate is running or has returned before its read tail
\* wrote to the resource data: d holds the values the handler got with d.Get
UpdatePlanned ==
    /\ h = "resourceHyperVVhdUpdate"
    /\ pc \in {"u_create", "u_resize", "r_get"} \/ (pc = "done" /\ ret.op # "GetVhd")

\* d.HasChange(k) in the running update
Changed(k) == tfstate.attrs[k] # d.attrs[k]

RecreateCondition ==
    \/ ~d.attrs["exists"]
    \/ Changed("path") \/ Changed("source") \/ Changed("source_vm")
    \/ Changed("source_disk") \/ Changed("parent_path")

ResizeCondition ==
    /\ d.attrs["size"] > 0
    /\ d.attrs["parent_path"] = ""
    /\ ~d.attrs["exists"] \/ Changed("size")

OnlySizeChanged ==
    Changed("size") /\ \A k \in VhdSchema \ {"size"} : ~Changed(k)

\* CreateOrUpdateVhd is called exactly when exists is false or one of path,
\* source, source_vm, source_disk, parent_path changed; ResizeVhd exactly when
\* size > 0, parent_path is empty, exists is false or size changed, and any
\* CreateOrUpdateVhd before it succeeded
UpdateCallsAsConditioned ==
    UpdatePlanned
    => /\ Starts("CreateOrUpdateVhd") = (IF RecreateCondition THEN 1 ELSE 0)
       /\ Starts("ResizeVhd") <= 1
       /\ Starts("ResizeVhd") = 1
            => /\ ResizeCondition
               /\ Starts("CreateOrUpdateVhd") = 1 => Ok("CreateOrUpdateVhd")
       /\ (/\ pc # "u_create"
           /\ Starts("CreateOrUpdateVhd") = 0 \/ Ok("CreateOrUpdateVhd")
           /\ ResizeCondition)
            => Starts("ResizeVhd") = 1
       /\ (d.attrs["size"] = 0 \/ d.attrs["parent_path"] # "")
            => Starts("ResizeVhd") = 0

\* C12 as stated: in resourceHyperVVhdUpdate the two calls are made exactly
\* under their conditions, an update with size = 0 or with a parent_path never
\* resizes, and an update in which only size changed never calls
\* CreateOrUpdateVhd.
C12_UpdateOnlySizeNeverRecreates ==
    /\ UpdateCallsAsConditioned
    /\ (UpdatePlanned /\ OnlySizeChanged) => Starts("CreateOrUpdateVhd") = 0

\* C12, amended: in resourceHyperVVhdUpdate the two calls are made exactly
\* under their conditions, an update with size = 0 or with a parent_path never
\* resizes, and an update in which only size changed and exists is true never
\* calls CreateOrUpdateVhd; with exists false it does.
C12_UpdateCallsUnderTheirConditions ==
    /\ UpdateCallsAsConditioned
    /\ (UpdatePlanned /\ OnlySizeChanged)
        => Starts("CreateOrUpdateVhd") = (IF d.attrs["exists"] THEN 0 ELSE 1)

\* an update in which only size changed has resized the disk without creating
\* it again and goes on to read it
C12_Witness ==
    /\ UpdatePlanned /\ OnlySizeChanged /\ d.attrs["exists"]
    /\ pc = "r_get"
    /\ Ok("ResizeVhd")
    /\ Starts("CreateOrUpdateVhd") = 0
    /\ fs.files[d.id].size = d.attrs["size"]

\* C13: no orphaned disk after a failed create: when resourceHyperVVhdCreate
\* has returned an error, a disk that this invocation created at the path
\* (VhdExists had found none and CreateOrUpdateVhd was called) is on the host
\* only if the resource ID was set to that path; also when CreateOrUpdateVhd
\* succeeded and the ResizeVhd or GetVhd after it failed.
C13_NoOrphanedDiskAfterFailedCreate ==
    (/\ pc = "done" /\ h = "resourceHyperVVhdCreate" /\ HasError(diags)
     /\ Ok("VhdExists") /\ Starts("CreateOrUpdateVhd") = 1
     /\ Exists(d.attrs["path"]))
    => d.id = d.attrs["path"]

\* C14: every key a handler writes with d.Set is declared in the schema of the
\* resource or data source the handler belongs to, so that no d.Set fails and
\* no read whose lookup succeeded returns an error; for resourceHyperVVhdRead,
\* resourceHyperVDvdRead and datasourceHyperVDvdRead.
C14_SetKeysDeclaredInSchema ==
    /\ \A i \in 1..Len(sets) :
            sets[i].key \in SchemaOf(decl.kind) /\ sets[i].ok
    /\ (pc = "done" /\ ret.op \in {"GetVhd", "GetDvd"} /\ ret.err = Nil)
        => ~HasError(diags)

\* a read of the resource whose file is q would report exists = true
ReadReportsExists(q) == DvdReadExists(DvdOf(q, NoIp))

\* C15: DeleteDvd(path) removes the file at path and leaves every other file
\* on the host unchanged: after a successful delete of a DVD every other file
\* of its directory, also one whose base name has the DVD's base name as a
\* prefix, is still there, and a later read of that other resource reports
\* exists = true.
C15_DeleteDvdRemovesOnlyItsFile ==
    (pc = "done" /\ h = "resourceHyperVDvdDelete" /\ ret.err = Nil)
    => /\ ~Exists(d.id)
       /\ \A q \in Neighbours(d.id) : Exists(q) /\ ReadReportsExists(q)

====
